---------------------------- MODULE Spec2Model ----------------------------
(*
  A model of the JWT authentication middleware of src/auth_jwt.go:
  the configuration object (JWTMiddleware), its startup step
  (MiddlewareFunc), and its three request entry points (middlewareImpl,
  LoginHandler, RefreshHandler), with the token codec of the jwt-go v2
  package the file calls (jwt.New, Token.SignedString, jwt.Parse) modelled
  by what it does to the claims map and the signature.

  Time is the Unix clock in whole seconds; durations are whole seconds.
  A handler that panics is recorded with status "panic": the server answers
  500 or drops the connection, never 401 and never a token.
*)
EXTENDS Naturals, Sequences, FiniteSets

\* mw: the JWTMiddleware object; conf: the object as the application built
\* it; alive: the process has not exited; installed: MiddlewareFunc has
\* returned the wrapper; now: the clock; held, heldBy: the token the client
\* holds and the identity that logged in for it; last: the latest call.
VARIABLES mw, conf, alive, installed, now, held, heldBy, last

vars == <<mw, conf, alive, installed, now, held, heldBy, last>>

(***************************************************************************)
(* Bounds of the model.                                                    *)
(***************************************************************************)
\* The clock runs from 0 to MaxTime.
MaxTime == 3
\* The explicit token lifetime a configuration may set (0 = left unset).
ShortTimeout == 1
\* The explicit refresh window a configuration may set (0 = refresh off).
RefreshWindow == 3

\* time.Hour in seconds.
Hour == 3600

Users == {"alice", "bob"}
\* Key "nil" stands for a nil []byte, "" for an empty non-nil one.
ServerKeys == {"nil", "", "k1"}
ForeignKey == "k2"

(***************************************************************************)
(* Go interface values held in a claims map, and their JSON encoding.      *)
(***************************************************************************)
GoNil == [ty |-> "nil", s |-> "", n |-> 0]
GoString(x) == [ty |-> "string", s |-> x, n |-> 0]
GoInt64(x) == [ty |-> "int64", s |-> "", n |-> x]
GoFloat64(x) == [ty |-> "float64", s |-> "", n |-> x]

JsonNull == [j |-> "null", s |-> "", n |-> 0]
JsonStr(x) == [j |-> "str", s |-> x, n |-> 0]
JsonNum(x) == [j |-> "num", s |-> "", n |-> x]

\* encoding/json: strings become JSON strings, every number type becomes a
\* JSON number, a nil (or missing) entry carries no value.
Marshal(v) ==
    CASE v.ty = "string" -> JsonStr(v.s)
      [] v.ty \in {"int64", "float64"} -> JsonNum(v.n)
      [] OTHER -> JsonNull

\* encoding/json into map[string]interface{}: a JSON number always decodes
\* to float64, a JSON string to string.
Unmarshal(x) ==
    CASE x.j = "str" -> GoString(x.s)
      [] x.j = "num" -> GoFloat64(x.n)
      [] OTHER -> GoNil

\* A claims map: a lookup of a missing key yields nil.
EmptyClaims == [id |-> GoNil, exp |-> GoNil, orig_iat |-> GoNil]

MarshalClaims(c) ==
    [id |-> Marshal(c.id), exp |-> Marshal(c.exp), orig_iat |-> Marshal(c.orig_iat)]

UnmarshalClaims(c) ==
    [id |-> Unmarshal(c.id), exp |-> Unmarshal(c.exp), orig_iat |-> Unmarshal(c.orig_iat)]

(***************************************************************************)
(* The token codec (jwt-go).                                               *)
(***************************************************************************)
HMACAlgs == {"HS256", "HS384", "HS512"}

\* jwt.GetSigningMethod: the registered method, or nil ("") when none.
GetSigningMethod(alg) == IF alg \in HMACAlgs THEN alg ELSE ""

\* The bytes of a key: a nil slice and an empty slice are the same bytes.
KeyBytes(k) == IF k = "nil" THEN "" ELSE k

\* HMAC as an ideal keyed function of (method, key, signed content).
Sign(method, content, key) ==
    [alg |-> method, key |-> KeyBytes(key), over |-> content]

Content(alg, claims) == [alg |-> alg, claims |-> claims]

NoSig == Sign("", Content("", MarshalClaims(EmptyClaims)), "")

\* A token string on the wire: header.claims.signature.
NoToken ==
    [kind |-> "none", alg |-> "", claims |-> MarshalClaims(EmptyClaims), sig |-> NoSig]

\* A string with no "." in it that is not a token.
Garbage ==
    [kind |-> "garbage", alg |-> "", claims |-> MarshalClaims(EmptyClaims), sig |-> NoSig]

\* A faulty variant: the signature covers the claims segment only, while
\* verification recomputes it over header and claims.
SignedString_ClaimsOnly(method, claims, key) ==
    [kind |-> "jwt", alg |-> method, claims |-> MarshalClaims(claims),
     sig |-> Sign(method, Content("", MarshalClaims(claims)), key)]

\* Token.SignedString with an HMAC method and a []byte key never fails.
SignedString(method, claims, key) ==
    [kind |-> "jwt", alg |-> method, claims |-> MarshalClaims(claims),
     sig |-> Sign(method, Content(method, MarshalClaims(claims)), key)]

(***************************************************************************)
(* Header strings: sequences of atoms (a space, a word, a token string).   *)
(***************************************************************************)
Sp == [k |-> "sp", w |-> " ", t |-> NoToken]
Word(w) == [k |-> "word", w |-> w, t |-> NoToken]
Tok(t) == [k |-> "tok", w |-> "", t |-> t]

\* strings.SplitN(h, " ", 2)
RECURSIVE FirstSpace(_, _)
FirstSpace(h, i) ==
    IF i > Len(h) THEN 0
    ELSE IF h[i].k = "sp" THEN i
    ELSE FirstSpace(h, i + 1)

SplitN2(h) ==
    LET i == FirstSpace(h, 1)
    IN IF i = 0 THEN <<h>>
       ELSE <<SubSeq(h, 1, i - 1), SubSeq(h, i + 1, Len(h))>>

\* The number of "." in a string: two in a token string, none elsewhere.
RECURSIVE Dots(_)
Dots(s) ==
    IF s = <<>> THEN 0
    ELSE (IF Head(s).k = "tok" /\ Head(s).t.kind = "jwt" THEN 2 ELSE 0) + Dots(Tail(s))

NilToken == [ptr |-> FALSE, Claims |-> EmptyClaims, err |-> TRUE]

\* jwt.Parse(s, keyFunc) at clock t, keyFunc returning `key`.
Parse(s, key, t) ==
    IF Dots(s) + 1 # 3 THEN NilToken
    ELSE IF s[1].k # "tok"
         THEN \* the header segment is not base64url: no claims are decoded
              [ptr |-> TRUE, Claims |-> EmptyClaims, err |-> TRUE]
    ELSE LET w == s[1].t
             claims == UnmarshalClaims(w.claims)
             method == GetSigningMethod(w.alg)
             expired == claims.exp.ty = "float64" /\ t > claims.exp.n
             sigok == /\ Len(s) = 1
                      /\ w.sig = Sign(method, Content(w.alg, w.claims), key)
         IN IF method = ""
            THEN [ptr |-> TRUE, Claims |-> claims, err |-> TRUE]
            ELSE [ptr |-> TRUE, Claims |-> claims, err |-> expired \/ ~sigok]

\* A faulty variant: the scheme is compared without regard to case.
parseToken_AnyCase(authHeader, key, t) ==
    IF authHeader = <<>> THEN NilToken
    ELSE LET parts == SplitN2(authHeader)
         IN IF ~(Len(parts) = 2
                 /\ parts[1] \in {<<Word("Bearer")>>, <<Word("bearer")>>})
            THEN NilToken
            ELSE Parse(parts[2], key, t)

\* parseToken(request, key)
parseToken(authHeader, key, t) ==
    IF authHeader = <<>> THEN NilToken
    ELSE LET parts == SplitN2(authHeader)
         IN IF ~(Len(parts) = 2 /\ parts[1] = <<Word("Bearer")>>)
            THEN NilToken
            ELSE Parse(parts[2], key, t)

(***************************************************************************)
(* The callbacks an application supplies.                                  *)
(***************************************************************************)
\* Authenticator(userId, password)
Authenticate(u, p) == u \in Users /\ p = "good"

\* Authorizator(userId, request): the default set by MiddlewareFunc allows
\* everyone, the application's own allows alice only.
Authorize(kind, id) == IF kind = "custom" THEN id = "alice" ELSE TRUE

(***************************************************************************)
(* State.                                                                  *)
(***************************************************************************)
Configs ==
    [Realm : {"", "realm"},
     SigningAlgorithm : {"", "HS256"},
     Key : ServerKeys,
     Timeout : {0, ShortTimeout},
     MaxRefresh : {0, RefreshWindow},
     Authenticator : {"nil", "set"},
     Authorizator : {"nil", "custom"}]

NoBody == [kind |-> "none", Username |-> "", Password |-> ""]

Idle ==
    [op |-> "none", status |-> "none", hdr |-> <<>>, body |-> NoBody,
     token |-> NoToken, handler |-> FALSE, remoteUser |-> "",
     authn |-> FALSE, authz |-> FALSE, at |-> 0, at2 |-> 0,
     challenge |-> <<>>, calls |-> <<>>]

Init ==
    /\ mw \in Configs
    /\ conf = mw
    /\ alive = TRUE
    /\ installed = FALSE
    /\ now = 0
    /\ held = NoToken
    /\ heldBy = ""
    /\ last = Idle


(***************************************************************************)
(* What a client can send.                                                 *)
(***************************************************************************)
\* A request body: empty, not JSON, or a JSON object ({} decodes to "", "").
Json(u, p) == [kind |-> "json", Username |-> u, Password |-> p]

Bodies ==
    {[kind |-> "empty", Username |-> "", Password |-> ""],
     [kind |-> "garbage", Username |-> "", Password |-> ""],
     Json("", ""), Json("alice", "good"), Json("bob", "good"), Json("alice", "bad")}

OtherAlg(alg) == IF alg = "HS512" THEN "HS256" ELSE "HS512"

\* The same claims signed by a holder of `key` under another HMAC method.
AlgSwapped(t, key) ==
    [t EXCEPT !.alg = OtherAlg(t.alg),
              !.sig = Sign(OtherAlg(t.alg), Content(OtherAlg(t.alg), t.claims), key)]

\* The same claims signed with a key the server does not use.
ForeignSigned(t) ==
    [t EXCEPT !.sig = Sign(t.alg, Content(t.alg, t.claims), ForeignKey)]

\* The expiry pushed back in the claims segment, the signature left as is.
Tampered(t) ==
    [t EXCEPT !.claims.exp = JsonNum(t.claims.exp.n + 1)]

TokenStrings(t, key) ==
    IF t.kind = "jwt"
    THEN {t, AlgSwapped(t, key), ForeignSigned(t), Tampered(t), Garbage}
    ELSE {Garbage}

Headers(t, key) ==
    {<<>>}
    \cup {<<Word("Bearer"), Sp, Tok(x)>> : x \in TokenStrings(t, key)}
    \cup (IF t.kind = "jwt"
          THEN {<<Word("bearer"), Sp, Tok(t)>>,
                <<Word("Bearer"), Tok(t)>>,
                <<Tok(t)>>,
                <<Word("Bearer"), Sp, Sp, Tok(t)>>,
                <<Word("Bearer"), Sp, Tok(t), Sp, Word("x")>>}
          ELSE {<<Word("Bearer")>>, <<Word("Bearer"), Sp>>})

(***************************************************************************)
(* MiddlewareFunc: startup checks and defaults.                            *)
(***************************************************************************)
Fatal == [Idle EXCEPT !.op = "MiddlewareFunc", !.status = "fatal"]

\* A faulty variant: the lifetime default (lines 56-58) is left out.
MiddlewareFunc_NoTimeoutDefault ==
    /\ alive
    /\ LET a == IF mw.SigningAlgorithm = ""
                THEN [mw EXCEPT !.SigningAlgorithm = "HS256"] ELSE mw
           c == IF a.Authorizator = "nil"
                THEN [a EXCEPT !.Authorizator = "default"] ELSE a
       IN IF mw.Realm = ""
          THEN mw' = mw /\ alive' = FALSE /\ installed' = installed /\ last' = Fatal
          ELSE IF mw.Key = "nil"
          THEN mw' = a /\ alive' = FALSE /\ installed' = installed /\ last' = Fatal
          ELSE IF mw.Authenticator = "nil"
          THEN mw' = a /\ alive' = FALSE /\ installed' = installed /\ last' = Fatal
          ELSE /\ mw' = c
               /\ alive' = TRUE
               /\ installed' = TRUE
               /\ last' = [Idle EXCEPT !.op = "MiddlewareFunc", !.status = "ok"]
    /\ UNCHANGED <<conf, now, held, heldBy>>

MiddlewareFunc ==
    /\ alive
    /\ LET a == IF mw.SigningAlgorithm = ""
                THEN [mw EXCEPT !.SigningAlgorithm = "HS256"] ELSE mw
           b == IF a.Timeout = 0 THEN [a EXCEPT !.Timeout = Hour] ELSE a
           c == IF b.Authorizator = "nil"
                THEN [b EXCEPT !.Authorizator = "default"] ELSE b
       IN IF mw.Realm = ""
          THEN mw' = mw /\ alive' = FALSE /\ installed' = installed /\ last' = Fatal
          ELSE IF mw.Key = "nil"
          THEN mw' = a /\ alive' = FALSE /\ installed' = installed /\ last' = Fatal
          ELSE IF mw.Authenticator = "nil"
          THEN mw' = b /\ alive' = FALSE /\ installed' = installed /\ last' = Fatal
          ELSE /\ mw' = c
               /\ alive' = TRUE
               /\ installed' = TRUE
               /\ last' = [Idle EXCEPT !.op = "MiddlewareFunc", !.status = "ok"]
    /\ UNCHANGED <<conf, now, held, heldBy>>

(***************************************************************************)
(* unauthorized: the 401 response with its WWW-Authenticate header.        *)
(***************************************************************************)
unauthorized(r) ==
    [r EXCEPT !.status = "401", !.challenge = <<"Basic realm=", mw.Realm>>]

(***************************************************************************)
(* middlewareImpl: the gate in front of a wrapped handler.  calls lists    *)
(* what the call invoked or set, in order.                                 *)
(***************************************************************************)
\* A faulty variant: the return after the failed authorization (line 83) is
\* missing, so the handler runs whatever Authorizator answered.
middlewareImpl_NoReturn(hdr, t) ==
    LET p == parseToken(hdr, mw.Key, t)
        r == [Idle EXCEPT !.op = "gate", !.hdr = hdr, !.at = t, !.at2 = t]
        id == p.Claims.id
    IN IF p.err THEN unauthorized(r)
       ELSE IF id.ty # "string" THEN [r EXCEPT !.status = "panic"]
       ELSE [r EXCEPT !.status = "handler", !.authz = TRUE,
                      !.remoteUser = id.s, !.handler = TRUE,
                      !.calls = <<"Authorizator", "REMOTE_USER", "handler">>]

middlewareImpl(hdr, t) ==
    LET p == parseToken(hdr, mw.Key, t)
        r == [Idle EXCEPT !.op = "gate", !.hdr = hdr, !.at = t, !.at2 = t]
        id == p.Claims.id
    IN IF p.err THEN unauthorized(r)
       ELSE IF id.ty # "string" THEN [r EXCEPT !.status = "panic"]
       ELSE IF ~Authorize(mw.Authorizator, id.s)
       THEN [unauthorized(r) EXCEPT !.authz = TRUE, !.calls = <<"Authorizator">>]
       ELSE [r EXCEPT !.status = "handler", !.authz = TRUE,
                      !.remoteUser = id.s, !.handler = TRUE,
                      !.calls = <<"Authorizator", "REMOTE_USER", "handler">>]

Gate ==
    /\ alive
    /\ installed
    /\ \E hdr \in Headers(held, mw.Key) : last' = middlewareImpl(hdr, now)
    /\ UNCHANGED <<mw, conf, alive, installed, now, held, heldBy>>

(***************************************************************************)
(* LoginHandler.  t1 and t2 are its two readings of the clock.             *)
(***************************************************************************)
\* A faulty variant: the decode error (lines 101-104) is not acted on, and
\* the zero-valued credentials go on to Authenticator.
LoginImpl_IgnoreDecodeError(body, t1, t2) ==
    LET r == [Idle EXCEPT !.op = "login", !.body = body, !.at = t1, !.at2 = t1]
        method == GetSigningMethod(mw.SigningAlgorithm)
        claims == [id |-> GoString(body.Username),
                   exp |-> GoInt64(t1 + mw.Timeout),
                   orig_iat |-> IF mw.MaxRefresh # 0 THEN GoInt64(t2) ELSE GoNil]
    IN IF mw.Authenticator = "nil"
       THEN [r EXCEPT !.status = "panic"]
       ELSE IF ~Authenticate(body.Username, body.Password)
       THEN [unauthorized(r) EXCEPT !.authn = TRUE, !.calls = <<"Authenticator">>]
       ELSE IF method = ""
       THEN [r EXCEPT !.status = "panic", !.authn = TRUE,
                      !.calls = <<"Authenticator">>]
       ELSE [r EXCEPT !.status = "ok", !.authn = TRUE,
                      !.calls = <<"Authenticator">>,
                      !.at2 = IF mw.MaxRefresh # 0 THEN t2 ELSE t1,
                      !.token = SignedString(method, claims, mw.Key)]

LoginImpl(body, t1, t2) ==
    LET r == [Idle EXCEPT !.op = "login", !.body = body, !.at = t1, !.at2 = t1]
        method == GetSigningMethod(mw.SigningAlgorithm)
        claims == [id |-> GoString(body.Username),
                   exp |-> GoInt64(t1 + mw.Timeout),
                   orig_iat |-> IF mw.MaxRefresh # 0 THEN GoInt64(t2) ELSE GoNil]
    IN IF body.kind # "json" THEN unauthorized(r)
       ELSE IF mw.Authenticator = "nil"
       THEN [r EXCEPT !.status = "panic"]
       ELSE IF ~Authenticate(body.Username, body.Password)
       THEN [unauthorized(r) EXCEPT !.authn = TRUE, !.calls = <<"Authenticator">>]
       ELSE IF method = ""
       THEN [r EXCEPT !.status = "panic", !.authn = TRUE,
                      !.calls = <<"Authenticator">>]
       ELSE [r EXCEPT !.status = "ok", !.authn = TRUE,
                      !.calls = <<"Authenticator">>,
                      !.at2 = IF mw.MaxRefresh # 0 THEN t2 ELSE t1,
                      !.token = SignedString(method, claims, mw.Key)]

\* A faulty variant: the handler fills in the algorithm default itself,
\* writing to the configuration object while requests are being served.
LoginHandler_SetsDefault ==
    /\ alive
    /\ \E body \in Bodies, d \in {0, 1} :
         LET r == LoginImpl(body, now, now + d)
         IN /\ now + d <= MaxTime
            /\ r.at2 = now + d
            /\ last' = r
            /\ now' = now + d
            /\ held' = IF r.status = "ok" THEN r.token ELSE held
            /\ heldBy' = IF r.status = "ok" THEN body.Username ELSE heldBy
    /\ mw' = IF mw.SigningAlgorithm = ""
             THEN [mw EXCEPT !.SigningAlgorithm = "HS256"] ELSE mw
    /\ UNCHANGED <<conf, alive, installed>>

LoginHandler ==
    /\ alive
    /\ \E body \in Bodies, d \in {0, 1} :
         LET r == LoginImpl(body, now, now + d)
         IN /\ now + d <= MaxTime
            /\ r.at2 = now + d
            /\ last' = r
            /\ now' = now + d
            /\ held' = IF r.status = "ok" THEN r.token ELSE held
            /\ heldBy' = IF r.status = "ok" THEN body.Username ELSE heldBy
    /\ UNCHANGED <<mw, conf, alive, installed>>

(***************************************************************************)
(* RefreshHandler.                                                         *)
(***************************************************************************)
\* v.(int64): the value and whether the assertion holds (it panics if not).
AssertInt64(v) == [ok |-> v.ty = "int64", n |-> v.n]

RefreshImpl(hdr, t) ==
    LET p == parseToken(hdr, mw.Key, t)
        r == [Idle EXCEPT !.op = "refresh", !.hdr = hdr, !.at = t, !.at2 = t]
        origIat == AssertInt64(p.Claims.orig_iat)
        method == GetSigningMethod(mw.SigningAlgorithm)
        claims == [id |-> p.Claims.id,
                   exp |-> GoInt64(t + mw.Timeout),
                   orig_iat |-> GoInt64(origIat.n)]
    IN IF ~p.ptr THEN [r EXCEPT !.status = "panic"]
       ELSE IF ~origIat.ok THEN [r EXCEPT !.status = "panic"]
       ELSE IF origIat.n < t THEN unauthorized(r)
       ELSE IF method = "" THEN [r EXCEPT !.status = "panic"]
       ELSE [r EXCEPT !.status = "ok",
                      !.token = SignedString(method, claims, mw.Key)]

RefreshHandler ==
    /\ alive
    /\ \E hdr \in Headers(held, mw.Key) :
         LET r == RefreshImpl(hdr, now)
         IN /\ last' = r
            /\ held' = IF r.status = "ok" THEN r.token ELSE held
    /\ UNCHANGED <<mw, conf, alive, installed, now, heldBy>>

(***************************************************************************)
(* The clock.                                                              *)
(***************************************************************************)
Tick ==
    /\ alive
    /\ now < MaxTime
    /\ now' = now + 1
    /\ UNCHANGED <<mw, conf, alive, installed, held, heldBy, last>>

Next ==
    \/ MiddlewareFunc
    \/ Gate
    \/ LoginHandler
    \/ RefreshHandler
    \/ Tick

Spec == Init /\ [][Next]_vars

(***************************************************************************)
(* Vocabulary of the properties: what a request presented, stated from the *)
(* request itself and not from the codec's verdict.                        *)
(***************************************************************************)
\* The header is exactly "Bearer", one space, a three-segment token string.
BearerHeader(h) ==
    /\ Len(h) = 3
    /\ h[1] = Word("Bearer")
    /\ h[2] = Sp
    /\ h[3].k = "tok"
    /\ h[3].t.kind = "jwt"

Presented == last.hdr[3].t

\* The signature is the HMAC of header and claims under the configured key,
\* by the method the token's own header names.
SignedWithKey(x) ==
    /\ x.alg \in HMACAlgs
    /\ x.sig = [alg |-> x.alg, key |-> KeyBytes(mw.Key),
                over |-> [alg |-> x.alg, claims |-> x.claims]]

\* ... and that method is the configured one.
SignedAsConfigured(x) == SignedWithKey(x) /\ x.alg = mw.SigningAlgorithm

HasExp(x) == x.claims.exp.j = "num"
HasOrigIat(x) == x.claims.orig_iat.j = "num"

\* The fields MiddlewareFunc requires are set.
RequiredFieldsSet ==
    mw.Realm # "" /\ mw.Key # "nil" /\ mw.Authenticator = "set"

Issued == last.status = "ok" /\ last.token.kind = "jwt"
Rejected401 == last.status = "401" /\ last.token = NoToken /\ ~last.handler

(***************************************************************************)
(* The properties.  Those about RefreshHandler are stated for a            *)
(* configuration MiddlewareFunc has validated and completed (installed),   *)
(* the one about LoginHandler for a configuration with its required fields *)
(* set: the cases every reading of the specification covers.               *)
(***************************************************************************)

\* C1 (as stated): the gate invokes the wrapped handler only for a bearer
\* token signed with the configured key whose exp is strictly greater than
\* the clock, and a token with exp <= now gets 401 and no handler call.
\* Refuted at exp = now: jwt.Parse reports expiry only when now > exp.
C1_GateRequiresUnexpired ==
    last.op = "gate" =>
        /\ last.handler =>
              /\ BearerHeader(last.hdr)
              /\ SignedWithKey(Presented)
              /\ HasExp(Presented)
              /\ Presented.claims.exp.n > last.at
        /\ (BearerHeader(last.hdr) /\ HasExp(Presented)
              /\ Presented.claims.exp.n <= last.at) => Rejected401

\* C2 (as stated): with refresh enabled, RefreshHandler answers a correctly
\* signed token that has expired but whose orig_iat + MaxRefresh > now with
\* a new token.  Refuted: the handler panics on the orig_iat assertion.
C2_RefreshAcceptsExpiredInWindow ==
    (/\ last.op = "refresh"
     /\ installed
     /\ mw.MaxRefresh # 0
     /\ BearerHeader(last.hdr)
     /\ SignedAsConfigured(Presented)
     /\ HasExp(Presented) /\ Presented.claims.exp.n < last.at
     /\ HasOrigIat(Presented)
     /\ Presented.claims.orig_iat.n + mw.MaxRefresh > last.at)
    => Issued

\* C3 (as stated): for a correctly signed, unexpired token carrying
\* orig_iat, RefreshHandler issues a new token exactly when
\* orig_iat + MaxRefresh > now, and answers 401 otherwise.
C3_RefreshDecidedByWindow ==
    (/\ last.op = "refresh"
     /\ installed
     /\ BearerHeader(last.hdr)
     /\ SignedAsConfigured(Presented)
     /\ HasExp(Presented) /\ Presented.claims.exp.n > last.at
     /\ HasOrigIat(Presented))
    => IF Presented.claims.orig_iat.n + mw.MaxRefresh > last.at
       THEN Issued
       ELSE Rejected401

\* C4 (as stated): once now >= orig_iat + MaxRefresh, a RefreshHandler call
\* with a token of that lineage is answered 401 and issues nothing.
C4_RefreshRejectsPastWindow ==
    (/\ last.op = "refresh"
     /\ installed
     /\ BearerHeader(last.hdr)
     /\ SignedAsConfigured(Presented)
     /\ HasOrigIat(Presented)
     /\ last.at >= Presented.claims.orig_iat.n + mw.MaxRefresh)
    => Rejected401

\* C5 (as stated): neither the gate nor RefreshHandler accepts a token whose
\* header names an algorithm other than the configured one, even when it is
\* signed with the configured key.
C5_AlgorithmPinned ==
    (/\ last.op \in {"gate", "refresh"}
     /\ BearerHeader(last.hdr)
     /\ Presented.alg # mw.SigningAlgorithm)
    => /\ ~last.handler
       /\ ~Issued

\* C6 (as stated): when the Authorization header is absent or malformed, or
\* the token is not signed with the configured key, RefreshHandler ends with
\* the 401 response: no crash, no token.
C6_RefreshCodecErrorIs401 ==
    (/\ last.op = "refresh"
     /\ installed
     /\ \/ ~BearerHeader(last.hdr)
        \/ ~SignedWithKey(Presented))
    => Rejected401

\* C7 (as stated): a correctly signed token without orig_iat presented to
\* RefreshHandler is answered 401, with no token and no abnormal failure.
C7_RefreshWithoutOrigIatIs401 ==
    (/\ last.op = "refresh"
     /\ installed
     /\ BearerHeader(last.hdr)
     /\ SignedAsConfigured(Presented)
     /\ ~HasOrigIat(Presented))
    => Rejected401

\* C10 (as stated): LoginHandler returns a token exactly when the body
\* decodes to a credential pair that authenticate accepts, and the token
\* carries id = identity, exp = now + Timeout, and orig_iat = now exactly
\* when MaxRefresh # 0 (now: a reading of the clock during the call).
C10_LoginIssuesIffAuthenticated ==
    (last.op = "login" /\ RequiredFieldsSet) =>
        /\ Issued <=> /\ last.body.kind = "json"
                      /\ last.body.Username \in Users
                      /\ last.body.Password = "good"
        /\ Issued =>
              /\ last.token.claims.id = JsonStr(last.body.Username)
              /\ last.token.claims.exp = JsonNum(last.at + mw.Timeout)
              /\ HasOrigIat(last.token) <=> mw.MaxRefresh # 0
              /\ HasOrigIat(last.token) =>
                    last.token.claims.orig_iat.n \in {last.at, last.at2}

(***************************************************************************)
(* Facts about the model that the verdicts above rest on.                  *)
(***************************************************************************)
\* RefreshHandler never completes: every call ends in a panic, either on
\* the nil token parseToken returned or on the orig_iat.(int64) assertion
\* (a parsed claim is a float64 or missing, never an int64).
RefreshAlwaysPanics == last.op = "refresh" => last.status = "panic"

\* C8, C9 (not settled): a refreshed token carries the id and orig_iat of
\* the token it was refreshed from, and a strictly greater exp.  Both hold
\* only because no refresh ever succeeds (RefreshAlwaysPanics): there is no
\* chain of refreshes to observe.
RefreshStepKeepsLineage ==
    (last.op = "refresh" /\ Issued) =>
        /\ last.token.claims.id = Presented.claims.id
        /\ last.token.claims.orig_iat = Presented.claims.orig_iat

RefreshStepRaisesExp ==
    (last.op = "refresh" /\ Issued) =>
        last.token.claims.exp.n > Presented.claims.exp.n


(***************************************************************************)
(* Key binding, response shape, ordering, startup, defaults, header form.  *)
(***************************************************************************)
\* The token was signed with a key whose bytes are not the configured key's.
SignedWithOtherKey(x) == x.sig.key # KeyBytes(mw.Key)

\* C11 (as stated): a token signed under another key is answered 401 by the
\* gate and by RefreshHandler: no handler call, no refreshed token.
\* Refuted for RefreshHandler, which panics instead of answering 401.
C11_OtherKeyRejected401 ==
    (/\ last.op \in {"gate", "refresh"}
     /\ installed
     /\ BearerHeader(last.hdr)
     /\ SignedWithOtherKey(Presented))
    => Rejected401

\* The gate's half of C11 holds: a token signed under another key never
\* reaches the wrapped handler.
GateRejectsOtherKey ==
    (last.op = "gate" /\ BearerHeader(last.hdr) /\ SignedWithOtherKey(Presented))
    => Rejected401

\* The one failure response: 401 with WWW-Authenticate: Basic realm=<realm>.
Uniform401 ==
    /\ last.status = "401"
    /\ last.challenge = <<"Basic realm=", mw.Realm>>

\* The request-time failures the claim lists, per entry point.
GateFailure ==
    /\ last.op = "gate"
    /\ \/ ~BearerHeader(last.hdr)
       \/ ~SignedWithKey(Presented)
       \/ (HasExp(Presented) /\ Presented.claims.exp.n < last.at)
       \/ ~Authorize(mw.Authorizator, Presented.claims.id.s)

LoginFailure ==
    /\ last.op = "login"
    /\ last.body.kind = "json"
    /\ mw.Authenticator = "set"
    /\ ~(last.body.Username \in Users /\ last.body.Password = "good")

RefreshFailure ==
    /\ last.op = "refresh"
    /\ installed
    /\ \/ ~BearerHeader(last.hdr)
       \/ ~SignedWithKey(Presented)
       \/ (HasOrigIat(Presented)
             /\ Presented.claims.orig_iat.n + mw.MaxRefresh <= last.at)

\* C12 (as stated): every request-time failure of the gate, the login
\* endpoint and the refresh endpoint produces the same response, 401 with
\* WWW-Authenticate: Basic realm=<realm>.  Refuted for the refresh
\* endpoint, whose failures end in a panic.
C12_FailuresAreUniform401 ==
    (GateFailure \/ LoginFailure \/ RefreshFailure) => Uniform401

\* The gate's and the login endpoint's failures do produce that response.
GateAndLoginFailuresUniform ==
    (GateFailure \/ LoginFailure) => Uniform401

(***************************************************************************)
(* C13: the order of the gate's steps.                                     *)
(***************************************************************************)
\* How often, and where, an event occurs in the latest call.
Count(ev) == Cardinality({i \in 1..Len(last.calls) : last.calls[i] = ev})
Pos(ev) == CHOOSE i \in 1..Len(last.calls) : last.calls[i] = ev

\* C13: in a gate call the wrapped handler runs at most once, only after
\* Authorizator returned true for the subject of the verified token and
\* after REMOTE_USER was set to that subject; when Authorizator returns
\* false the handler does not run and REMOTE_USER is not set.
C13_HandlerOnlyAfterAuthorize ==
    last.op = "gate" =>
        /\ Count("handler") <= 1
        /\ last.handler <=> Count("handler") = 1
        /\ last.handler =>
              /\ BearerHeader(last.hdr)
              /\ SignedWithKey(Presented)
              /\ Count("Authorizator") = 1
              /\ Authorize(mw.Authorizator, Presented.claims.id.s)
              /\ Pos("Authorizator") < Pos("REMOTE_USER")
              /\ Pos("REMOTE_USER") < Pos("handler")
              /\ last.remoteUser = Presented.claims.id.s
        /\ (/\ BearerHeader(last.hdr)
            /\ ~Authorize(mw.Authorizator, Presented.claims.id.s)) =>
              /\ ~last.handler
              /\ Count("REMOTE_USER") = 0
              /\ last.remoteUser = ""

\* Both cases occur: alice is let through to the handler, and (in some
\* earlier or later call) a verified token of bob is turned away.
C13_Witness ==
    /\ last.op = "gate"
    /\ mw.Authorizator = "custom"
    /\ last.handler
    /\ last.remoteUser = "alice"

C13_WitnessDenied ==
    /\ last.op = "gate"
    /\ BearerHeader(last.hdr)
    /\ SignedAsConfigured(Presented)
    /\ Presented.claims.id.s = "bob"
    /\ last.authz
    /\ ~last.handler

(***************************************************************************)
(* C14, C15: startup validation and defaults.                              *)
(***************************************************************************)
\* The configuration, as the application built it, lacks a required field:
\* an empty realm, an absent or empty signing key, no authenticate callback.
MissingRequiredField ==
    \/ conf.Realm = ""
    \/ conf.Key \in {"nil", ""}
    \/ conf.Authenticator = "nil"

\* The latest call was a request that got an answer from a handler.
Served ==
    /\ last.op \in {"login", "refresh", "gate"}
    /\ last.status \in {"ok", "401", "handler"}

\* C14 (as stated): a configuration missing a required field serves no
\* login, refresh or protected request.  Refuted: the checks live in
\* MiddlewareFunc only, LoginHandler and RefreshHandler run without them,
\* and an empty non-nil key passes the check Key == nil.
C14_NoServiceWithoutRequiredFields == MissingRequiredField => ~Served

\* What MiddlewareFunc does enforce: the gate runs only with a non-empty
\* realm, a non-nil key and an authenticate callback.
GateOnlyAfterStartupChecks ==
    last.op = "gate" =>
        conf.Realm # "" /\ conf.Key # "nil" /\ conf.Authenticator = "set"

\* A reachable state: the gate lets a request through under a configuration
\* whose key is empty (MiddlewareFunc tests Key == nil only).
EmptyKeyServed == last.op = "gate" /\ conf.Key = "" /\ last.handler

\* The application left both the lifetime and the algorithm unset.
DefaultsLeftUnset == conf.Timeout = 0 /\ conf.SigningAlgorithm = ""

\* C15: with tokenLifetime and signingAlgorithm left unset, every token
\* LoginHandler or RefreshHandler issues is signed with HS256 and expires
\* one hour after the call, whatever calls came before.
C15_IssuedWithDefaults ==
    (/\ last.op \in {"login", "refresh"}
     /\ DefaultsLeftUnset
     /\ Issued)
    => /\ last.token.alg = "HS256"
       /\ last.token.sig.alg = "HS256"
       /\ last.token.claims.exp = JsonNum(last.at + Hour)

C15_Witness ==
    /\ last.op = "login"
    /\ DefaultsLeftUnset
    /\ Issued
    /\ last.token.claims.exp.n = last.at + Hour

\* Before MiddlewareFunc has run, such a configuration issues nothing:
\* LoginHandler panics in jwt.New on the unset algorithm.
NoTokenBeforeDefaults ==
    (last.op = "login" /\ DefaultsLeftUnset /\ ~installed) => ~Issued

\* A reachable state: the algorithm is set, the lifetime is not, and
\* LoginHandler, called before MiddlewareFunc, issues a token that expires
\* the second it is issued.
ZeroLifetimeIssued ==
    /\ last.op = "login"
    /\ conf.Timeout = 0
    /\ Issued
    /\ last.token.claims.exp.n = last.at

(***************************************************************************)
(* C16: a login body that cannot be decoded.                               *)
(***************************************************************************)
MalformedBody == last.op = "login" /\ last.body.kind # "json"

\* C16 (as stated): a malformed login body fails with BadRequest, a
\* response other than the 401 of a failed authentication, and
\* authenticate is not called.  Refuted: the answer is that same 401.
C16_MalformedBodyIsBadRequest ==
    MalformedBody =>
        /\ last.status = "400"
        /\ Count("Authenticator") = 0

\* C16 (amended): a malformed login body is answered with the same 401
\* response as a failed authentication, no token is issued, and
\* authenticate is not called.
C16_MalformedBodyIs401 ==
    MalformedBody =>
        /\ Uniform401
        /\ last.token = NoToken
        /\ Count("Authenticator") = 0
        /\ ~last.authn

C16_Witness ==
    /\ MalformedBody
    /\ mw.Authenticator = "set"
    /\ last.status = "401"

(***************************************************************************)
(* C17: the form of the Authorization header.                              *)
(***************************************************************************)
\* The header is absent or empty, has no space in it, or does not start
\* with the word Bearer followed by a space.
MalformedHeader(h) ==
    \/ h = <<>>
    \/ \A i \in 1..Len(h) : h[i].k # "sp"
    \/ h[1] # Word("Bearer")
    \/ h[2].k # "sp"

\* What follows "Bearer" and its one space.
Remainder(h) == SubSeq(h, 3, Len(h))

\* C17: parseToken returns an error, and no token, for every header that is
\* absent, empty, without a space, or of another scheme than the exact
\* word Bearer, and the gate then answers 401; for a header of the form
\* Bearer, space, remainder, its result is that of verifying the remainder.
C17_BearerHeaderForm ==
    last.op \in {"gate", "refresh"} =>
        LET p == parseToken(last.hdr, mw.Key, last.at)
        IN IF MalformedHeader(last.hdr)
           THEN /\ p.err
                /\ ~p.ptr
                /\ last.op = "gate" => Rejected401
           ELSE p = Parse(Remainder(last.hdr), mw.Key, last.at)

\* A correctly signed, unexpired token sent under the scheme "bearer" is
\* turned away by the gate.
C17_Witness ==
    /\ last.op = "gate"
    /\ Len(last.hdr) = 3
    /\ last.hdr[1] = Word("bearer")
    /\ last.hdr[2] = Sp
    /\ SignedAsConfigured(last.hdr[3].t)
    /\ last.hdr[3].t.claims.exp.n > last.at
    /\ Rejected401

\* A header with two spaces after Bearer is of the accepted form: its
\* remainder, beginning with the second space, goes to jwt.Parse and fails
\* there.
C17_DoubleSpaceReachesParse ==
    /\ last.op = "gate"
    /\ Len(last.hdr) = 4
    /\ ~MalformedHeader(last.hdr)
    /\ parseToken(last.hdr, mw.Key, last.at).ptr
    /\ Rejected401

(***************************************************************************)
(* C18: what a request may touch.  The server's state is mw, alive and     *)
(* installed; held and heldBy belong to the client.                        *)
(***************************************************************************)
Called(l, ev) == \E i \in 1..Len(l.calls) : l.calls[i] = ev

\* Which callbacks each entry point may invoke.
CallDiscipline(l) ==
    /\ l.op = "refresh" =>
          /\ ~Called(l, "Authenticator") /\ ~l.authn
          /\ ~Called(l, "Authorizator") /\ ~l.authz
    /\ l.op = "gate" => ~Called(l, "Authenticator") /\ ~l.authn
    /\ l.op = "login" => ~Called(l, "Authorizator") /\ ~l.authz

\* C18: a call of LoginHandler, RefreshHandler or the gate leaves every
\* field of the configuration (and the rest of the server's state) as it
\* was; RefreshHandler calls neither callback, the gate never calls
\* Authenticator and LoginHandler never calls Authorizator.
C18_RequestsLeaveConfiguration ==
    [][last'.op \in {"login", "refresh", "gate"} =>
          /\ mw' = mw
          /\ alive' = alive
          /\ installed' = installed
          /\ CallDiscipline(last')]_vars

\* A request was served by a configuration that carries the defaults
\* MiddlewareFunc wrote into it.
C18_Witness ==
    /\ last.op = "gate"
    /\ last.handler
    /\ mw # conf

(***************************************************************************)
(* C19: a token that was issued is accepted by the gate until it expires.  *)
(* held is the token the client received last, heldBy the user name of the *)
(* login it descends from.                                                 *)
(***************************************************************************)
PresentsHeldUnchanged ==
    /\ last.op = "gate"
    /\ held # NoToken
    /\ last.hdr = <<Word("Bearer"), Sp, Tok(held)>>

\* C19: the gate, given an issued token unchanged and strictly before the
\* token's exp, accepts it: when Authorizator approves, the wrapped handler
\* runs with REMOTE_USER set to the user who logged in; otherwise the
\* answer is the 401 of a denied authorization, never a token error.
C19_IssuedTokenPassesGate ==
    (PresentsHeldUnchanged /\ last.at < held.claims.exp.n) =>
        /\ ~parseToken(last.hdr, mw.Key, last.at).err
        /\ last.authz
        /\ IF Authorize(mw.Authorizator, heldBy)
           THEN /\ last.status = "handler"
                /\ last.handler
                /\ last.remoteUser = heldBy
           ELSE Rejected401 /\ ~last.handler

\* The token is presented some time after it was issued and the handler
\* runs for its owner.
C19_Witness ==
    /\ PresentsHeldUnchanged
    /\ last.at < held.claims.exp.n
    /\ held.claims.orig_iat.j = "num"
    /\ last.at > held.claims.orig_iat.n
    /\ last.handler
    /\ last.remoteUser = heldBy

\* The same token is refused for a user Authorizator does not approve.
C19_WitnessDenied ==
    /\ PresentsHeldUnchanged
    /\ last.at < held.claims.exp.n
    /\ heldBy = "bob"
    /\ Rejected401

=============================================================================
